---- MODULE Spec2Model ----
(***************************************************************************)
(* Model of typemapping's type-compatibility engine                        *)
(* (typemapping/origins.py, typemapping/type_check.py) and of the          *)
(* Annotated helpers of typemapping/compat.py.                             *)
(*                                                                         *)
(* A type expression is a record [o, a, g]:                                *)
(*   o  the value of `get_origin(t) or t` (an origin atom),                *)
(*   a  the value of get_args(t), a sequence of type expressions,          *)
(*   g  TRUE iff get_origin(t) is not None (t is a generic alias).         *)
(* Origin atoms are strings.  Runtime classes carry their class name       *)
(* ("OrderedDict" is collections.OrderedDict), the collections.abc classes *)
(* carry the names origins.py imports them under ("AbcSequence", ...), and *)
(* the typing aliases are written "typing.X": typing.OrderedDict and       *)
(* collections.OrderedDict are different objects that compare unequal.     *)
(***************************************************************************)
EXTENDS Integers, Sequences, FiniteSets, TLC

VARIABLES sub, sup, obj, op, res, exc, pc, anyIsClass

vars == <<sub, sup, obj, op, res, exc, pc, anyIsClass>>

----------------------------------------------------------------------------
(* Bounds of the explored universe. *)

(* Longest Union drawn from UnionMembers. *)
MaxUnion == 2

(* Deepest nesting of activations of one recursive function that the host  *)
(* stack admits (sys.getrecursionlimit(), scaled down).                    *)
RecursionLimit == 4

(* Longest runtime container. *)
MaxLen == 12

----------------------------------------------------------------------------
(* Type expressions. *)

Cls(o) == [o |-> o, a |-> <<>>, g |-> FALSE]

Gen(o, args) == [o |-> o, a |-> args, g |-> TRUE]

Origin(t) == t.o

Args(t) == t.a

NoneType == Cls("NoneType")

AnyT == Cls("Any")

(* Python's == on the objects the code compares (origins.py:120,           *)
(* type_check.py:359, 411, 464, 494).  Classes, aliases and strings are    *)
(* equal to themselves; a float NaN is equal to nothing, itself included.  *)
PyEq(a, b) == a = b /\ a # "nan"

----------------------------------------------------------------------------
(* origins.py: the equivalence table, in dict insertion order. *)

EQUIV_ORIGIN ==
  << [k |-> "list",
      s |-> {"list", "typing.List", "AbcSequence", "MutableSequence",
             "AbcIterable", "AbcContainer"}],
     [k |-> "tuple",
      s |-> {"tuple", "typing.Tuple", "AbcSequence", "AbcIterable",
             "AbcContainer"}],
     [k |-> "set",
      s |-> {"set", "typing.Set", "AbcSet", "MutableSet", "AbcIterable",
             "AbcContainer"}],
     [k |-> "frozenset",
      s |-> {"frozenset", "typing.FrozenSet", "AbcSet", "AbcIterable",
             "AbcContainer"}],
     [k |-> "dict",
      s |-> {"dict", "typing.Dict", "AbcMapping", "AbcMutableMapping",
             "AbcContainer"}],
     [k |-> "defaultdict",
      s |-> {"defaultdict", "typing.DefaultDict", "dict", "typing.Dict",
             "AbcMapping", "AbcMutableMapping", "AbcContainer"}],
     [k |-> "typing.OrderedDict",
      s |-> {"typing.OrderedDict", "dict", "typing.Dict", "AbcMapping",
             "AbcMutableMapping", "AbcContainer"}],
     [k |-> "typing.Counter",
      s |-> {"typing.Counter", "dict", "typing.Dict", "AbcMapping",
             "AbcMutableMapping", "AbcContainer"}],
     [k |-> "typing.ChainMap",
      s |-> {"typing.ChainMap", "AbcMapping", "AbcMutableMapping",
             "AbcContainer"}],
     [k |-> "deque",
      s |-> {"deque", "typing.Deque", "MutableSequence", "AbcSequence",
             "AbcIterable", "AbcContainer"}],
     [k |-> "function",
      s |-> {"function", "typing.Callable", "AbcCallable"}],
     [k |-> "generator",
      s |-> {"generator", "typing.Generator", "AbcGenerator", "AbcIterator",
             "AbcIterable"}],
     [k |-> "AbcSequence",
      s |-> {"deque", "list", "tuple", "AbcSequence", "MutableSequence",
             "AbcIterable", "AbcContainer"}] >>

RECURSIVE is_equivalent_origin(_, _)
RECURSIVE _handle_union_compatibility(_, _, _, _)
RECURSIVE are_args_compatible(_, _)
RECURSIVE is_fully_compatible(_, _)

(* Variant: no direct comparison, the registry alone decides. *)
is_equivalent_origin_registry(t1, t2) ==
  LET o1 == Origin(t1)
      o2 == Origin(t2)
  IN  IF \E i \in DOMAIN EQUIV_ORIGIN :
            o1 \in EQUIV_ORIGIN[i].s /\ o2 \in EQUIV_ORIGIN[i].s
        THEN TRUE
      ELSE IF o1 = "Union" \/ o2 = "Union"
        THEN _handle_union_compatibility(t1, t2, o1, o2)
      ELSE FALSE

is_equivalent_origin(t1, t2) ==
  LET o1 == Origin(t1)
      o2 == Origin(t2)
  IN  IF PyEq(o1, o2) THEN TRUE
      ELSE IF \E i \in DOMAIN EQUIV_ORIGIN :
                 o1 \in EQUIV_ORIGIN[i].s /\ o2 \in EQUIV_ORIGIN[i].s
           THEN TRUE
      ELSE IF o1 = "Union" \/ o2 = "Union"
           THEN _handle_union_compatibility(t1, t2, o1, o2)
      ELSE FALSE

_handle_union_compatibility(t1, t2, o1, o2) ==
  IF o1 = "Union" /\ o2 # "Union"
    THEN \E i \in DOMAIN Args(t1) : is_equivalent_origin(Args(t1)[i], t2)
  ELSE IF o2 = "Union" /\ o1 # "Union"
    THEN \E i \in DOMAIN Args(t2) : is_equivalent_origin(t1, Args(t2)[i])
  ELSE IF o1 = "Union" /\ o2 = "Union"
    THEN \E i \in DOMAIN Args(t1) : \E j \in DOMAIN Args(t2) :
           is_equivalent_origin(Args(t1)[i], Args(t2)[j])
  ELSE FALSE

(* Variant: the lengths are not compared; zip() stops at the shorter. *)
are_args_compatible_zip(t1, t2) ==
  LET args1 == Args(t1)
      args2 == Args(t2)
      n == IF Len(args1) <= Len(args2) THEN Len(args1) ELSE Len(args2)
  IN  IF args1 = <<>> /\ args2 = <<>> THEN TRUE
      ELSE IF (args1 # <<>>) # (args2 # <<>>) THEN FALSE
      ELSE \A i \in 1..n : is_fully_compatible(args1[i], args2[i])

are_args_compatible(t1, t2) ==
  LET args1 == Args(t1)
      args2 == Args(t2)
  IN  IF args1 = <<>> /\ args2 = <<>> THEN TRUE
      ELSE IF (args1 # <<>>) # (args2 # <<>>) THEN FALSE
      ELSE IF Len(args1) # Len(args2) THEN FALSE
      ELSE \A i \in DOMAIN args1 : is_fully_compatible(args1[i], args2[i])

is_fully_compatible(t1, t2) ==
  IF ~is_equivalent_origin(t1, t2) THEN FALSE
  ELSE are_args_compatible(t1, t2)

----------------------------------------------------------------------------
(* The host's nominal class relation, as the issubclass() fallbacks of     *)
(* type_check.py see it.  typing aliases and the Union marker are not      *)
(* classes.  typing.Any is a class on Python 3.11 and later and a special  *)
(* form before: anyIsClass records which build is running.                 *)

Classes ==
  {"int", "bool", "str", "NoneType", "object",
   "list", "tuple", "set", "frozenset", "dict", "defaultdict", "OrderedDict",
   "Counter", "ChainMap", "deque", "function", "generator",
   "AbcSequence", "MutableSequence", "AbcSet", "MutableSet", "AbcMapping",
   "AbcMutableMapping", "AbcIterable", "AbcContainer", "AbcCallable",
   "AbcGenerator", "AbcIterator"}

isclass(o) == o \in Classes \/ (o = "Any" /\ anyIsClass)

SeqAbcs == {"AbcSequence", "AbcIterable", "AbcContainer"}

MutSeqAbcs == SeqAbcs \cup {"MutableSequence"}

SetAbcs == {"AbcSet", "AbcIterable", "AbcContainer"}

MapAbcs == {"AbcMapping", "AbcIterable", "AbcContainer"}

MutMapAbcs == MapAbcs \cup {"AbcMutableMapping"}

ProperBases(o) ==
  CASE o = "bool" -> {"int"}
    [] o = "str" -> SeqAbcs
    [] o = "list" -> MutSeqAbcs
    [] o = "deque" -> MutSeqAbcs
    [] o = "tuple" -> SeqAbcs
    [] o = "set" -> SetAbcs \cup {"MutableSet"}
    [] o = "frozenset" -> SetAbcs
    [] o = "dict" -> MutMapAbcs
    [] o \in {"defaultdict", "OrderedDict", "Counter"} -> MutMapAbcs \cup {"dict"}
    [] o = "ChainMap" -> MutMapAbcs
    [] o = "AbcSequence" -> {"AbcIterable", "AbcContainer"}
    [] o = "MutableSequence" -> SeqAbcs
    [] o = "AbcSet" -> {"AbcIterable", "AbcContainer"}
    [] o = "MutableSet" -> SetAbcs
    [] o = "AbcMapping" -> {"AbcIterable", "AbcContainer"}
    [] o = "AbcMutableMapping" -> MapAbcs
    [] o = "AbcIterator" -> {"AbcIterable"}
    [] o = "AbcGenerator" -> {"AbcIterator", "AbcIterable"}
    [] o = "generator" -> {"AbcGenerator", "AbcIterator", "AbcIterable"}
    [] o = "function" -> {"AbcCallable"}
    [] OTHER -> {}

issubclass(c, d) == c = d \/ d = "object" \/ d \in ProperBases(c)

----------------------------------------------------------------------------
(* type_check.py: private helpers. *)

_is_union_type(t) == t.g /\ Origin(t) = "Union"

_is_optional_type(t) ==
  IF ~_is_union_type(t) THEN FALSE
  ELSE Len(Args(t)) = 2 /\ \E i \in DOMAIN Args(t) : Args(t)[i] = NoneType

_get_optional_inner_type(t) ==
  LET args == Args(t)
      first == CHOOSE i \in DOMAIN args :
                 /\ args[i] # NoneType
                 /\ \A j \in DOMAIN args : args[j] # NoneType => i <= j
  IN  args[first]

specialization_map ==
  [o \in {"Counter", "OrderedDict", "ChainMap", "typing.Counter",
          "typing.OrderedDict", "typing.ChainMap", "defaultdict", "deque"}
     |-> IF o = "deque" THEN "list" ELSE "dict"]

_is_collection_specialization_subtype(sub_origin, super_origin) ==
  IF sub_origin \in DOMAIN specialization_map
    THEN LET base_type == specialization_map[sub_origin]
         IN  PyEq(base_type, super_origin)
               \/ is_equivalent_origin(Cls(base_type), Cls(super_origin))
    ELSE FALSE

concrete_to_abstract ==
  [o \in {"list", "dict", "set", "tuple", "frozenset", "defaultdict", "deque",
          "Counter", "OrderedDict", "ChainMap", "typing.Counter",
          "typing.OrderedDict", "typing.ChainMap"} |->
     CASE o = "list" -> {"typing.List", "AbcSequence", "MutableSequence",
                         "AbcIterable", "AbcContainer"}
       [] o = "dict" -> {"typing.Dict", "AbcMapping", "AbcMutableMapping",
                         "AbcContainer"}
       [] o = "set" -> {"typing.Set", "AbcIterable", "AbcContainer"}
       [] o = "tuple" -> {"typing.Tuple", "AbcSequence", "AbcIterable",
                          "AbcContainer"}
       [] o = "frozenset" -> {"typing.FrozenSet", "AbcIterable", "AbcContainer"}
       [] o = "defaultdict" -> {"defaultdict", "typing.DefaultDict", "dict",
                                "typing.Dict", "AbcMapping",
                                "AbcMutableMapping", "AbcContainer"}
       [] o = "deque" -> {"deque", "MutableSequence", "AbcSequence",
                          "AbcIterable", "AbcContainer"}
       [] o \in {"Counter", "OrderedDict", "typing.Counter",
                 "typing.OrderedDict"} ->
            {o, "dict", "typing.Dict", "AbcMapping", "AbcMutableMapping",
             "AbcContainer"}
       [] o \in {"ChainMap", "typing.ChainMap"} ->
            {o, "AbcMapping", "AbcMutableMapping", "AbcContainer"}]

(* Variant: an origin missing from the table is let through. *)
_is_abstraction_compatible_lax(sub_origin, super_origin) ==
  IF sub_origin \in DOMAIN concrete_to_abstract
    THEN super_origin \in concrete_to_abstract[sub_origin]
    ELSE TRUE

_is_abstraction_compatible(sub_origin, super_origin) ==
  IF sub_origin \in DOMAIN concrete_to_abstract
    THEN super_origin \in concrete_to_abstract[sub_origin]
    ELSE PyEq(sub_origin, super_origin)

_is_subtype_origin(sub_origin, super_origin) ==
  IF PyEq(sub_origin, super_origin) THEN TRUE
  ELSE IF _is_collection_specialization_subtype(sub_origin, super_origin)
    THEN TRUE
  ELSE IF is_equivalent_origin(Cls(sub_origin), Cls(super_origin))
    THEN _is_abstraction_compatible(sub_origin, super_origin)
  ELSE IF isclass(sub_origin) /\ isclass(super_origin)
    THEN issubclass(sub_origin, super_origin)
  ELSE FALSE

----------------------------------------------------------------------------
(* type_check.py: extended_issubclass. *)

RECURSIVE extended_issubclass(_, _)
RECURSIVE _is_covariant_arg(_, _)

_is_covariant_arg(sub_arg, super_arg) ==
  IF super_arg = AnyT THEN TRUE
  ELSE IF sub_arg = AnyT THEN FALSE
  ELSE extended_issubclass(sub_arg, super_arg)

(* Variant: a union supertype must be matched by all of its members. *)
extended_issubclass_all_right(subtype, supertype) ==
  IF _is_union_type(supertype)
    THEN \A i \in DOMAIN Args(supertype) :
           extended_issubclass(subtype, Args(supertype)[i])
  ELSE IF _is_union_type(subtype)
    THEN \A i \in DOMAIN Args(subtype) :
           extended_issubclass(Args(subtype)[i], supertype)
  ELSE IF ~_is_subtype_origin(Origin(subtype), Origin(supertype)) THEN FALSE
  ELSE IF Args(subtype) = <<>> /\ Args(supertype) = <<>> THEN TRUE
  ELSE IF Len(Args(subtype)) # Len(Args(supertype)) THEN FALSE
  ELSE \A i \in DOMAIN Args(subtype) :
         _is_covariant_arg(Args(subtype)[i], Args(supertype)[i])

extended_issubclass(subtype, supertype) ==
  IF _is_union_type(supertype)
    THEN \E i \in DOMAIN Args(supertype) :
           extended_issubclass(subtype, Args(supertype)[i])
  ELSE IF _is_union_type(subtype)
    THEN \A i \in DOMAIN Args(subtype) :
           extended_issubclass(Args(subtype)[i], supertype)
  ELSE
    LET sub_origin == Origin(subtype)
        super_origin == Origin(supertype)
        sub_args == Args(subtype)
        super_args == Args(supertype)
    IN  IF _is_optional_type(supertype)
          THEN LET super_inner == _get_optional_inner_type(supertype)
               IN  IF _is_optional_type(subtype)
                     THEN extended_issubclass(
                            _get_optional_inner_type(subtype), super_inner)
                     ELSE extended_issubclass(subtype, super_inner)
        ELSE IF _is_optional_type(subtype)
          THEN IF _is_optional_type(supertype) \/ _is_union_type(supertype)
                 THEN \E i \in DOMAIN Args(supertype) :
                        extended_issubclass(subtype, Args(supertype)[i])
                 ELSE FALSE
        ELSE IF ~_is_subtype_origin(sub_origin, super_origin) THEN FALSE
        ELSE IF sub_args = <<>> /\ super_args = <<>> THEN TRUE
        ELSE IF (sub_args # <<>>) # (super_args # <<>>) THEN FALSE
        ELSE IF Len(sub_args) # Len(super_args) THEN FALSE
        ELSE \A i \in DOMAIN sub_args :
               _is_covariant_arg(sub_args[i], super_args[i])

----------------------------------------------------------------------------
(* origins.py: get_equivalent_origin.  The result is an origin atom, or    *)
(* "None".                                                                 *)

RECURSIVE FirstOwner(_, _)

(* The key of the first entry of the table, from position i on, whose set  *)
(* holds the origin; "None" when no entry does.                            *)
FirstOwner(origin, i) ==
  IF i > Len(EQUIV_ORIGIN) THEN "None"
  ELSE IF origin \in EQUIV_ORIGIN[i].s THEN EQUIV_ORIGIN[i].k
  ELSE FirstOwner(origin, i + 1)

get_equivalent_origin(t) ==
  LET origin == Origin(t)
  IN  IF FirstOwner(origin, 1) # "None" THEN FirstOwner(origin, 1)
      ELSE IF t.g THEN "None"
      ELSE origin

----------------------------------------------------------------------------
(* compat.py: Annotated helpers, as they run on Python 3.9 and later (the  *)
(* branches under sys.version_info < (3, 9) are not taken).  An Annotated  *)
(* expression has origin "Annotated" and arguments <<base, m1, ..., mn>>.  *)

NoneValue == Cls("None")

is_annotated_type(tp) ==
  IF tp = NoneValue THEN FALSE
  ELSE tp.g /\ Origin(tp) = "Annotated"

(* Variant: the last argument is returned instead of the first. *)
strip_annotated_last(tp) ==
  IF is_annotated_type(tp) /\ Args(tp) # <<>>
    THEN Args(tp)[Len(Args(tp))]
    ELSE tp

strip_annotated(tp) ==
  IF is_annotated_type(tp) /\ Args(tp) # <<>>
    THEN Args(tp)[1]
    ELSE tp

get_annotated_metadata(tp) ==
  IF is_annotated_type(tp) /\ Len(Args(tp)) > 1
    THEN SubSeq(Args(tp), 2, Len(Args(tp)))
    ELSE <<>>

----------------------------------------------------------------------------
(* Exceptions.  A value that is not a type can still be handed to the      *)
(* functions: its origin is the value itself and it has no arguments.  The *)
(* parameter list of Callable[[X], Y] is such a value: get_args returns it *)
(* as a Python list, which compares by content and cannot be hashed.       *)
(* Every membership test on a set or a dict hashes the tested value first  *)
(* and raises TypeError on an unhashable one.  raises_f(x, y) is TRUE iff  *)
(* the call f(x, y) ends with that TypeError.                              *)

Unhashable(o) == o \in {"[int]", "[str]"}

(* any(...) and all(...) over calls 1..n, evaluated in order: call i runs  *)
(* iff no earlier call raised or decided the result.                       *)
AnyRaises(n, R(_), V(_)) ==
  \E i \in 1..n : R(i) /\ \A j \in 1..(i - 1) : ~R(j) /\ ~V(j)

AllRaises(n, R(_), V(_)) ==
  \E i \in 1..n : R(i) /\ \A j \in 1..(i - 1) : ~R(j) /\ V(j)

RECURSIVE raises_is_equivalent_origin(_, _)
RECURSIVE raises__handle_union_compatibility(_, _, _, _)
RECURSIVE raises_are_args_compatible(_, _)
RECURSIVE raises_is_fully_compatible(_, _)
RECURSIVE raises_extended_issubclass(_, _)

(* `o1 in equiv_set` hashes o1 on the first entry; `o2 in equiv_set` is    *)
(* evaluated, and hashes o2, on the first entry that holds o1.             *)
raises_is_equivalent_origin(t1, t2) ==
  LET o1 == Origin(t1)
      o2 == Origin(t2)
  IN  IF PyEq(o1, o2) THEN FALSE
      ELSE IF Unhashable(o1) THEN TRUE
      ELSE IF Unhashable(o2) /\ FirstOwner(o1, 1) # "None" THEN TRUE
      ELSE IF \E i \in DOMAIN EQUIV_ORIGIN :
                 o1 \in EQUIV_ORIGIN[i].s /\ o2 \in EQUIV_ORIGIN[i].s
           THEN FALSE
      ELSE IF o1 = "Union" \/ o2 = "Union"
           THEN raises__handle_union_compatibility(t1, t2, o1, o2)
      ELSE FALSE

raises__handle_union_compatibility(t1, t2, o1, o2) ==
  LET args1 == Args(t1)
      args2 == Args(t2)
      n2 == Len(args2)
      left(k) == args1[((k - 1) \div n2) + 1]
      right(k) == args2[((k - 1) % n2) + 1]
  IN  IF o1 = "Union" /\ o2 # "Union"
        THEN AnyRaises(Len(args1),
                       LAMBDA i : raises_is_equivalent_origin(args1[i], t2),
                       LAMBDA i : is_equivalent_origin(args1[i], t2))
      ELSE IF o2 = "Union" /\ o1 # "Union"
        THEN AnyRaises(n2,
                       LAMBDA i : raises_is_equivalent_origin(t1, args2[i]),
                       LAMBDA i : is_equivalent_origin(t1, args2[i]))
      ELSE IF o1 = "Union" /\ o2 = "Union"
        THEN AnyRaises(Len(args1) * n2,
                       LAMBDA k : raises_is_equivalent_origin(left(k), right(k)),
                       LAMBDA k : is_equivalent_origin(left(k), right(k)))
      ELSE FALSE

raises_are_args_compatible(t1, t2) ==
  LET args1 == Args(t1)
      args2 == Args(t2)
  IN  IF args1 = <<>> /\ args2 = <<>> THEN FALSE
      ELSE IF (args1 # <<>>) # (args2 # <<>>) THEN FALSE
      ELSE IF Len(args1) # Len(args2) THEN FALSE
      ELSE AllRaises(Len(args1),
                     LAMBDA i : raises_is_fully_compatible(args1[i], args2[i]),
                     LAMBDA i : is_fully_compatible(args1[i], args2[i]))

raises_is_fully_compatible(t1, t2) ==
  IF raises_is_equivalent_origin(t1, t2) THEN TRUE
  ELSE IF ~is_equivalent_origin(t1, t2) THEN FALSE
  ELSE raises_are_args_compatible(t1, t2)

(* `sub_origin in specialization_map` hashes sub_origin. *)
raises__is_collection_specialization_subtype(sub_origin, super_origin) ==
  IF Unhashable(sub_origin) THEN TRUE
  ELSE IF sub_origin \in DOMAIN specialization_map
    THEN LET base_type == specialization_map[sub_origin]
         IN  base_type # super_origin
               /\ raises_is_equivalent_origin(Cls(base_type),
                                              Cls(super_origin))
    ELSE FALSE

(* `sub_origin in concrete_to_abstract` hashes sub_origin, and the lookup  *)
(* in its entry hashes super_origin.                                       *)
raises__is_abstraction_compatible(sub_origin, super_origin) ==
  IF Unhashable(sub_origin) THEN TRUE
  ELSE IF sub_origin \in DOMAIN concrete_to_abstract
    THEN Unhashable(super_origin)
    ELSE FALSE

(* The issubclass() fallback runs inside `try ... except TypeError`. *)
raises__is_subtype_origin(sub_origin, super_origin) ==
  IF PyEq(sub_origin, super_origin) THEN FALSE
  ELSE IF raises__is_collection_specialization_subtype(sub_origin,
                                                       super_origin)
    THEN TRUE
  ELSE IF _is_collection_specialization_subtype(sub_origin, super_origin)
    THEN FALSE
  ELSE IF raises_is_equivalent_origin(Cls(sub_origin), Cls(super_origin))
    THEN TRUE
  ELSE IF is_equivalent_origin(Cls(sub_origin), Cls(super_origin))
    THEN raises__is_abstraction_compatible(sub_origin, super_origin)
  ELSE FALSE

raises__is_covariant_arg(sub_arg, super_arg) ==
  IF super_arg = AnyT THEN FALSE
  ELSE IF sub_arg = AnyT THEN FALSE
  ELSE raises_extended_issubclass(sub_arg, super_arg)

(* The two Optional branches of extended_issubclass are left out: every    *)
(* Optional is a Union and has returned before them.                       *)
raises_extended_issubclass(subtype, supertype) ==
  LET sub_args == Args(subtype)
      super_args == Args(supertype)
  IN  IF _is_union_type(supertype)
        THEN AnyRaises(Len(super_args),
               LAMBDA i : raises_extended_issubclass(subtype, super_args[i]),
               LAMBDA i : extended_issubclass(subtype, super_args[i]))
      ELSE IF _is_union_type(subtype)
        THEN AllRaises(Len(sub_args),
               LAMBDA i : raises_extended_issubclass(sub_args[i], supertype),
               LAMBDA i : extended_issubclass(sub_args[i], supertype))
      ELSE IF raises__is_subtype_origin(Origin(subtype), Origin(supertype))
        THEN TRUE
      ELSE IF ~_is_subtype_origin(Origin(subtype), Origin(supertype))
        THEN FALSE
      ELSE IF sub_args = <<>> /\ super_args = <<>> THEN FALSE
      ELSE IF (sub_args # <<>>) # (super_args # <<>>) THEN FALSE
      ELSE IF Len(sub_args) # Len(super_args) THEN FALSE
      ELSE AllRaises(Len(sub_args),
             LAMBDA i : raises__is_covariant_arg(sub_args[i], super_args[i]),
             LAMBDA i : _is_covariant_arg(sub_args[i], super_args[i]))

----------------------------------------------------------------------------
(* Recursion depth.  Neither module counts or limits its own recursion:    *)
(* the only ceiling is the host interpreter's, which ends a call that      *)
(* nests too deep with RecursionError.  frames_f(x, y) is the deepest      *)
(* nesting of activations of f that the call f(x, y) reaches, counting     *)
(* only the calls that any(...) and all(...) really make.                  *)

MaxOf(S) == IF S = {} THEN 0 ELSE CHOOSE m \in S : \A x \in S : x <= m

(* The depths of the calls that any(...), resp. all(...), makes among      *)
(* calls 1..n with results V(i) and depths D(i).                           *)
AnyDepth(n, V(_), D(_)) ==
  MaxOf({D(i) : i \in {k \in 1..n : \A j \in 1..(k - 1) : ~V(j)}})

AllDepth(n, V(_), D(_)) ==
  MaxOf({D(i) : i \in {k \in 1..n : \A j \in 1..(k - 1) : V(j)}})

RECURSIVE frames_extended_issubclass(_, _)
RECURSIVE frames_is_fully_compatible(_, _)

frames__is_covariant_arg(sub_arg, super_arg) ==
  IF super_arg = AnyT THEN 0
  ELSE IF sub_arg = AnyT THEN 0
  ELSE frames_extended_issubclass(sub_arg, super_arg)

frames_extended_issubclass(subtype, supertype) ==
  LET sub_args == Args(subtype)
      super_args == Args(supertype)
  IN  IF _is_union_type(supertype)
        THEN 1 + AnyDepth(Len(super_args),
               LAMBDA i : extended_issubclass(subtype, super_args[i]),
               LAMBDA i : frames_extended_issubclass(subtype, super_args[i]))
      ELSE IF _is_union_type(subtype)
        THEN 1 + AllDepth(Len(sub_args),
               LAMBDA i : extended_issubclass(sub_args[i], supertype),
               LAMBDA i : frames_extended_issubclass(sub_args[i], supertype))
      ELSE IF ~_is_subtype_origin(Origin(subtype), Origin(supertype)) THEN 1
      ELSE IF sub_args = <<>> /\ super_args = <<>> THEN 1
      ELSE IF (sub_args # <<>>) # (super_args # <<>>) THEN 1
      ELSE IF Len(sub_args) # Len(super_args) THEN 1
      ELSE 1 + AllDepth(Len(sub_args),
             LAMBDA i : _is_covariant_arg(sub_args[i], super_args[i]),
             LAMBDA i : frames__is_covariant_arg(sub_args[i], super_args[i]))

frames_is_fully_compatible(t1, t2) ==
  LET args1 == Args(t1)
      args2 == Args(t2)
  IN  IF ~is_equivalent_origin(t1, t2) THEN 1
      ELSE IF args1 = <<>> /\ args2 = <<>> THEN 1
      ELSE IF (args1 # <<>>) # (args2 # <<>>) THEN 1
      ELSE IF Len(args1) # Len(args2) THEN 1
      ELSE 1 + AllDepth(Len(args1),
             LAMBDA i : is_fully_compatible(args1[i], args2[i]),
             LAMBDA i : frames_is_fully_compatible(args1[i], args2[i]))

(* How a call ends: with the host's RecursionError when it nests deeper    *)
(* than the host allows, with TypeError when it hashes an unhashable       *)
(* value, normally otherwise.                                              *)
Outcome(depth, raises) ==
  IF depth > RecursionLimit THEN "RecursionError"
  ELSE IF raises THEN "TypeError"
  ELSE "none"

----------------------------------------------------------------------------
(* Runtime values.  A value is a record [ty, id, elems, vals]:             *)
(*   ty     the atom of type(value),                                       *)
(*   id     tells scalars of one type apart,                               *)
(*   elems  what iterating the value yields, in order (for a mapping: its  *)
(*          keys; for a generator: what it has not yielded yet),           *)
(*   vals   for a mapping, the values aligned with its keys.               *)

Scalar(ty, id) == [ty |-> ty, id |-> id, elems |-> <<>>, vals |-> <<>>]

Container(ty, elems) == [ty |-> ty, id |-> 0, elems |-> elems, vals |-> <<>>]

MappingOf(ty, keys, values) ==
  [ty |-> ty, id |-> 0, elems |-> keys, vals |-> values]

MappingTypes == {"dict", "defaultdict", "OrderedDict", "Counter", "ChainMap"}

IterableTypes ==
  MappingTypes
    \cup {"list", "tuple", "set", "frozenset", "deque", "generator", "str"}

(* `for item in obj`: a one-character string yields itself. *)
Iter(o) == IF o.ty = "str" THEN <<o>> ELSE o.elems

(* hasattr(obj, "__len__"): a generator has no length. *)
HasLen(o) == o.ty \in IterableTypes \ {"generator"}

(* `not obj`. *)
Falsy(o) ==
  IF HasLen(o) THEN Len(Iter(o)) = 0
  ELSE o.ty = "NoneType"

(* The value after k items have been fetched from its iterator: only a     *)
(* generator loses them.                                                   *)
Fetched(o, k) ==
  IF o.ty = "generator"
    THEN [o EXCEPT !.elems = SubSeq(o.elems, k + 1, Len(o.elems))]
    ELSE o

Min(a, b) == IF a <= b THEN a ELSE b

----------------------------------------------------------------------------
(* type_check.py: extended_isinstance.  Every operator of this section     *)
(* returns a record [r, o]: r is the function's result and o is the        *)
(* checked value as the call leaves it.                                    *)

SampleSize == 10

_check_runtime_origin_compatibility(obj_type, target_origin) ==
  IF is_equivalent_origin(Cls(obj_type), Cls(target_origin)) THEN TRUE
  ELSE IF isclass(target_origin)
    THEN PyEq(obj_type, target_origin) \/ issubclass(obj_type, target_origin)
  ELSE FALSE

RECURSIVE extended_isinstance(_, _)
RECURSIVE AnyMember(_, _, _)
RECURSIVE ElementLoop(_, _, _, _, _)
RECURSIVE ItemLoop(_, _, _, _, _, _)

(* any(extended_isinstance(obj, arg) for arg in args), from member i on:   *)
(* each member is tried on the value as the previous one left it.          *)
AnyMember(o, args, i) ==
  IF i > Len(args) THEN [r |-> FALSE, o |-> o]
  ELSE LET x == extended_isinstance(o, args[i])
       IN  IF x.r THEN x ELSE AnyMember(x.o, args, i + 1)

(* The loop `for item in obj` of _validate_sequence_args and               *)
(* _validate_set_args, from item i on; k is the number of items fetched.   *)
(* The item is fetched before count is compared with sample_size.          *)
ElementLoop(items, element_type, sample_size, i, count) ==
  IF i > Len(items) THEN [r |-> TRUE, k |-> Len(items)]
  ELSE IF count >= sample_size THEN [r |-> TRUE, k |-> i]
  ELSE IF ~extended_isinstance(items[i], element_type).r
    THEN [r |-> FALSE, k |-> i]
  ELSE ElementLoop(items, element_type, sample_size, i + 1, count + 1)

(* The loop `for key, value in obj.items()` of _validate_mapping_args. *)
ItemLoop(o, key_type, value_type, sample_size, i, count) ==
  IF i > Len(o.elems) THEN TRUE
  ELSE IF count >= sample_size THEN TRUE
  ELSE LET key_valid ==
             key_type = AnyT \/ extended_isinstance(o.elems[i], key_type).r
           value_valid ==
             value_type = AnyT \/ extended_isinstance(o.vals[i], value_type).r
       IN  IF ~(key_valid /\ value_valid) THEN FALSE
           ELSE ItemLoop(o, key_type, value_type, sample_size, i + 1,
                         count + 1)

(* Variant: every element is checked, however many there are. *)
_validate_sequence_args_whole(o, args) ==
  IF args = <<>> THEN [r |-> TRUE, o |-> o]
  ELSE IF Falsy(o) THEN [r |-> TRUE, o |-> o]
  ELSE IF args[1] = AnyT THEN [r |-> TRUE, o |-> o]
  ELSE IF o.ty \notin IterableTypes THEN [r |-> FALSE, o |-> o]
  ELSE LET x == ElementLoop(Iter(o), args[1], Len(Iter(o)), 1, 0)
       IN  [r |-> x.r, o |-> Fetched(o, x.k)]

(* Iterating a value that is not iterable raises TypeError, which          *)
(* _validate_generic_args turns into False.                                *)
_validate_sequence_args(o, args) ==
  IF args = <<>> THEN [r |-> TRUE, o |-> o]
  ELSE IF Falsy(o) THEN [r |-> TRUE, o |-> o]
  ELSE IF args[1] = AnyT THEN [r |-> TRUE, o |-> o]
  ELSE IF o.ty \notin IterableTypes THEN [r |-> FALSE, o |-> o]
  ELSE LET sample_size ==
             IF HasLen(o) THEN Min(SampleSize, Len(Iter(o))) ELSE SampleSize
           x == ElementLoop(Iter(o), args[1], sample_size, 1, 0)
       IN  [r |-> x.r, o |-> Fetched(o, x.k)]

(* Variant: only the keys are checked. *)
_validate_mapping_args_keys(o, args) ==
  IF Len(args) < 2 THEN [r |-> TRUE, o |-> o]
  ELSE IF Falsy(o) THEN [r |-> TRUE, o |-> o]
  ELSE IF args[1] = AnyT /\ args[2] = AnyT THEN [r |-> TRUE, o |-> o]
  ELSE IF o.ty \notin MappingTypes THEN [r |-> FALSE, o |-> o]
  ELSE [r |-> ItemLoop(o, args[1], AnyT,
                       Min(SampleSize, Len(o.elems)), 1, 0),
        o |-> o]

(* A value without .items() raises AttributeError, which                   *)
(* _validate_generic_args turns into False.                                *)
_validate_mapping_args(o, args) ==
  IF Len(args) < 2 THEN [r |-> TRUE, o |-> o]
  ELSE IF Falsy(o) THEN [r |-> TRUE, o |-> o]
  ELSE IF args[1] = AnyT /\ args[2] = AnyT THEN [r |-> TRUE, o |-> o]
  ELSE IF o.ty \notin MappingTypes THEN [r |-> FALSE, o |-> o]
  ELSE [r |-> ItemLoop(o, args[1], args[2],
                       Min(SampleSize, Len(o.elems)), 1, 0),
        o |-> o]

_validate_set_args(o, args) ==
  IF args = <<>> THEN [r |-> TRUE, o |-> o]
  ELSE IF Falsy(o) THEN [r |-> TRUE, o |-> o]
  ELSE IF args[1] = AnyT THEN [r |-> TRUE, o |-> o]
  ELSE IF o.ty \notin IterableTypes THEN [r |-> FALSE, o |-> o]
  ELSE LET sample_size ==
             IF HasLen(o) THEN Min(SampleSize, Len(Iter(o))) ELSE SampleSize
           x == ElementLoop(Iter(o), args[1], sample_size, 1, 0)
       IN  [r |-> x.r, o |-> Fetched(o, x.k)]

(* The origin of a generic alias is a class, so the membership tests of    *)
(* the dispatch hash nothing unhashable.                                   *)
_validate_generic_args(o, args, origin) ==
  IF origin \in {"list", "tuple"}
       \/ is_equivalent_origin(Cls(origin), Cls("list"))
    THEN _validate_sequence_args(o, args)
  ELSE IF origin = "dict" \/ is_equivalent_origin(Cls(origin), Cls("dict"))
    THEN _validate_mapping_args(o, args)
  ELSE IF origin \in {"set", "frozenset"}
            \/ is_equivalent_origin(Cls(origin), Cls("set"))
    THEN _validate_set_args(o, args)
  ELSE [r |-> TRUE, o |-> o]

(* The Optional branch follows the Union branch and is never reached. *)
extended_isinstance(o, type_hint) ==
  IF _is_union_type(type_hint) THEN AnyMember(o, Args(type_hint), 1)
  ELSE IF _is_optional_type(type_hint)
    THEN IF o.ty = "NoneType" THEN [r |-> TRUE, o |-> o]
         ELSE extended_isinstance(o, _get_optional_inner_type(type_hint))
  ELSE LET origin == Origin(type_hint)
           args == Args(type_hint)
           obj_type == o.ty
       IN  IF ~_check_runtime_origin_compatibility(obj_type, origin)
             THEN [r |-> FALSE, o |-> o]
           ELSE IF args = <<>> THEN [r |-> TRUE, o |-> o]
           ELSE _validate_generic_args(o, args, origin)

(* The equivalence lookup of the shape check runs outside any try. *)
RECURSIVE raises_extended_isinstance(_, _)

raises_extended_isinstance(o, type_hint) ==
  IF _is_union_type(type_hint)
    THEN AnyRaises(Len(Args(type_hint)),
           LAMBDA i : raises_extended_isinstance(o, Args(type_hint)[i]),
           LAMBDA i : extended_isinstance(o, Args(type_hint)[i]).r)
    ELSE raises_is_equivalent_origin(Cls(o.ty), Cls(Origin(type_hint)))

(* The deepest nesting of activations of extended_isinstance.  The         *)
(* handlers of _validate_generic_args catch TypeError and AttributeError   *)
(* only, so the host's RecursionError leaves the outermost call.           *)
RECURSIVE frames_extended_isinstance(_, _)
RECURSIVE AnyMemberDepth(_, _, _)

AnyMemberDepth(o, args, i) ==
  IF i > Len(args) THEN 0
  ELSE LET x == extended_isinstance(o, args[i])
           here == frames_extended_isinstance(o, args[i])
           rest == IF x.r THEN 0 ELSE AnyMemberDepth(x.o, args, i + 1)
       IN  IF here >= rest THEN here ELSE rest

(* The element loop calls extended_isinstance on items 1..k, short of the  *)
(* one fetched after the sample was complete.                              *)
ElementDepth(o, args) ==
  IF args = <<>> \/ Falsy(o) THEN 0
  ELSE IF args[1] = AnyT \/ o.ty \notin IterableTypes THEN 0
  ELSE LET sample_size ==
             IF HasLen(o) THEN Min(SampleSize, Len(Iter(o))) ELSE SampleSize
           x == ElementLoop(Iter(o), args[1], sample_size, 1, 0)
       IN  MaxOf({frames_extended_isinstance(Iter(o)[i], args[1]) :
                    i \in 1..Min(x.k, sample_size)})

(* The item loop checks the key and the value of pair i iff all earlier    *)
(* pairs were valid.                                                       *)
ItemDepth(o, args) ==
  IF Len(args) < 2 \/ Falsy(o) THEN 0
  ELSE IF (args[1] = AnyT /\ args[2] = AnyT) \/ o.ty \notin MappingTypes
    THEN 0
  ELSE LET valid(t, v) == t = AnyT \/ extended_isinstance(v, t).r
           depth(t, v) ==
             IF t = AnyT THEN 0 ELSE frames_extended_isinstance(v, t)
           reached ==
             {i \in 1..Min(SampleSize, Len(o.elems)) :
                \A j \in 1..(i - 1) : /\ valid(args[1], o.elems[j])
                                      /\ valid(args[2], o.vals[j])}
       IN  MaxOf({depth(args[1], o.elems[i]) : i \in reached}
                   \cup {depth(args[2], o.vals[i]) : i \in reached})

frames__validate_generic_args(o, args, origin) ==
  IF origin \in {"list", "tuple"}
       \/ is_equivalent_origin(Cls(origin), Cls("list"))
    THEN ElementDepth(o, args)
  ELSE IF origin = "dict" \/ is_equivalent_origin(Cls(origin), Cls("dict"))
    THEN ItemDepth(o, args)
  ELSE IF origin \in {"set", "frozenset"}
            \/ is_equivalent_origin(Cls(origin), Cls("set"))
    THEN ElementDepth(o, args)
  ELSE 0

frames_extended_isinstance(o, type_hint) ==
  IF _is_union_type(type_hint)
    THEN 1 + AnyMemberDepth(o, Args(type_hint), 1)
  ELSE IF ~_check_runtime_origin_compatibility(o.ty, Origin(type_hint))
    THEN 1
  ELSE IF Args(type_hint) = <<>> THEN 1
  ELSE 1 + frames__validate_generic_args(o, Args(type_hint),
                                         Origin(type_hint))

----------------------------------------------------------------------------
(* tests/test_type_check.py: the copy of the origin-level helpers the test *)
(* suite keeps.  It imports Counter, OrderedDict, defaultdict and deque    *)
(* from collections and has no entry for ChainMap; is_equivalent_origin is *)
(* the library's.                                                          *)

test_specialization_map ==
  [o \in {"defaultdict", "Counter", "OrderedDict", "deque"}
     |-> IF o = "deque" THEN "list" ELSE "dict"]

test__is_collection_specialization_subtype(sub_origin, super_origin) ==
  IF sub_origin \in DOMAIN test_specialization_map
    THEN LET base_type == test_specialization_map[sub_origin]
         IN  PyEq(base_type, super_origin)
               \/ is_equivalent_origin(Cls(base_type), Cls(super_origin))
    ELSE FALSE

test_concrete_to_abstract ==
  [o \in {"list", "dict", "set", "tuple", "frozenset", "defaultdict",
          "Counter", "OrderedDict", "deque"} |->
     CASE o = "list" -> {"typing.List", "AbcSequence", "MutableSequence",
                         "AbcIterable", "AbcContainer"}
       [] o = "dict" -> {"typing.Dict", "AbcMapping", "AbcMutableMapping",
                         "AbcContainer"}
       [] o = "set" -> {"typing.Set", "AbcIterable", "AbcContainer"}
       [] o = "tuple" -> {"typing.Tuple", "AbcSequence", "AbcIterable",
                          "AbcContainer"}
       [] o = "frozenset" -> {"typing.FrozenSet", "AbcIterable", "AbcContainer"}
       [] o = "defaultdict" -> {"defaultdict", "typing.DefaultDict", "dict",
                                "typing.Dict", "AbcMapping",
                                "AbcMutableMapping", "AbcContainer"}
       [] o \in {"Counter", "OrderedDict"} ->
            {o, "dict", "typing.Dict", "AbcMapping", "AbcMutableMapping",
             "AbcContainer"}
       [] o = "deque" -> {"deque", "MutableSequence", "AbcSequence",
                          "AbcIterable", "AbcContainer"}]

test__is_abstraction_compatible(sub_origin, super_origin) ==
  IF sub_origin \in DOMAIN test_concrete_to_abstract
    THEN super_origin \in test_concrete_to_abstract[sub_origin]
    ELSE PyEq(sub_origin, super_origin)

test__is_subtype_origin(sub_origin, super_origin) ==
  IF PyEq(sub_origin, super_origin) THEN TRUE
  ELSE IF test__is_collection_specialization_subtype(sub_origin, super_origin)
    THEN TRUE
  ELSE IF is_equivalent_origin(Cls(sub_origin), Cls(super_origin))
    THEN test__is_abstraction_compatible(sub_origin, super_origin)
  ELSE IF isclass(sub_origin) /\ isclass(super_origin)
    THEN issubclass(sub_origin, super_origin)
  ELSE FALSE

----------------------------------------------------------------------------
(* The type expressions the queries are explored on. *)

Leaves == {Cls(x) : x \in {"int", "bool", "str", "NoneType", "object", "Any"}}

ConcreteOrigins ==
  {"list", "tuple", "set", "frozenset", "dict", "defaultdict", "OrderedDict",
   "Counter", "ChainMap", "deque"}

AbstractOrigins ==
  {"AbcSequence", "MutableSequence", "AbcSet", "MutableSet", "AbcMapping",
   "AbcMutableMapping", "AbcIterable", "AbcContainer", "AbcCallable",
   "AbcGenerator", "AbcIterator"}

(* Origins that take one type parameter, and those that take two. *)
Unary ==
  {"list", "tuple", "set", "frozenset", "deque", "Counter", "AbcSequence",
   "MutableSequence", "AbcSet", "MutableSet", "AbcIterable", "AbcContainer",
   "AbcIterator"}

Binary ==
  {"dict", "defaultdict", "OrderedDict", "ChainMap", "AbcMapping",
   "AbcMutableMapping"}

(* typing flattens nested unions and removes duplicate members, so a      *)
(* Union expression lists at least two distinct non-union members.        *)
DistinctSeqs(S, n) ==
  {s \in [1..n -> S] : \A i, j \in 1..n : i # j => s[i] # s[j]}

UnionMembers == {Cls(x) : x \in {"int", "bool", "str", "NoneType"}}

Unions ==
  UNION {{Gen("Union", s) : s \in DistinctSeqs(UnionMembers, n)} :
           n \in 2..MaxUnion}

Optional(t) == Gen("Union", <<t, NoneType>>)

ListOf(t) == Gen("list", <<t>>)

Elems ==
  {Cls("int"), Cls("bool"), Cls("str"), Cls("object"), AnyT,
   Optional(Cls("int")), ListOf(Cls("int"))}

Keys == {Cls("str"), Optional(Cls("int"))}

Values == {Cls("int"), Cls("bool"), AnyT}

Bare == {Cls(o) : o \in ConcreteOrigins \cup AbstractOrigins}

Generics ==
  {Gen(o, <<e>>) : o \in Unary, e \in Elems}
    \cup {Gen(o, <<k, v>>) : o \in Binary, k \in Keys, v \in Values}

MixedUnions ==
  {Gen("Union", <<ListOf(Cls("int")), Cls("str")>>),
   Gen("Union", <<ListOf(Cls("int")), Gen("set", <<Cls("int")>>)>>)}

(* Expressions that differ from a neighbour by their number of arguments. *)
ArityVariants ==
  {Gen("tuple", <<Cls("int"), Cls("str")>>),
   Gen("Union", <<Cls("int"), Cls("str"), NoneType>>)}

(* Annotated[base, m1, ..., mn] as typing builds it: an Annotated base is  *)
(* flattened, its metadata coming first.                                   *)
Annotated(base, metadata) ==
  IF base.g /\ Origin(base) = "Annotated"
    THEN Gen("Annotated", Args(base) \o metadata)
    ELSE Gen("Annotated", <<base>> \o metadata)

(* Metadata are arbitrary values, not types. *)
Metadata == {<<Cls("'m'")>>, <<Cls("'m'"), Cls("2")>>}

AnnotatedBases ==
  {Cls("int"), ListOf(Cls("int")), Optional(Cls("int")),
   Gen("dict", <<Cls("str"), Cls("int")>>),
   Annotated(Cls("int"), <<Cls("'a'")>>)}

AnnotatedTypes ==
  {Annotated(b, m) : b \in AnnotatedBases, m \in Metadata}
    \cup {ListOf(Annotated(Cls("int"), <<Cls("'a'")>>)), NoneValue}

Types ==
  Leaves \cup Bare \cup Generics \cup Unions \cup MixedUnions
    \cup ArityVariants \cup AnnotatedTypes

(* Malformed and deeply nested expressions. *)
RECURSIVE Nest(_)

(* List[List[...[int]...]], n levels deep. *)
Nest(n) == IF n = 0 THEN Cls("int") ELSE ListOf(Nest(n - 1))

CallableOf(params, result) == Gen("AbcCallable", <<params, result>>)

Malformed ==
  {Cls("[int]"), Cls("[str]"), Cls("'x'"), Cls("nan"),
   Annotated(Cls("int"), <<Cls("nan")>>),
   CallableOf(Cls("[int]"), Cls("str")),
   CallableOf(Cls("[str]"), Cls("str")),
   CallableOf(Cls("[int]"), Cls("int")),
   CallableOf(Cls("Ellipsis"), Cls("str"))}

EdgeTypes ==
  Malformed
    \cup {Nest(n) : n \in 0..(RecursionLimit + 1)}
    \cup {Cls("list"), Cls("AbcCallable"),
          Gen("Union", <<Cls("int"), Cls("list")>>)}

----------------------------------------------------------------------------
(* The runtime values extended_isinstance is explored on. *)

NoneObject == Scalar("NoneType", 0)

Item(ty, i) == IF ty = "NoneType" THEN NoneObject ELSE Scalar(ty, i)

(* n items of type base; with kind "one" the item at position p, with kind *)
(* "tail" every item from position p on, has type odd instead (p = 0:      *)
(* none has).                                                              *)
Items(n, base, odd, kind, p) ==
  [i \in 1..n |->
     IF p # 0 /\ (i = p \/ (kind = "tail" /\ i > p))
       THEN Item(odd, i) ELSE Item(base, i)]

(* Lengths below, at and above the sample size. *)
Lens == {0, 1, 2} \cup (SampleSize..MaxLen)

ItemSeqs ==
  {Items(n, bo[1], bo[2], kind, p) :
     n \in Lens, p \in 0..MaxLen, kind \in {"one", "tail"},
     bo \in {<<"int", "str">>, <<"int", "NoneType">>, <<"str", "int">>}}

SequenceValues ==
  {Container(ty, e) :
     ty \in {"list", "tuple", "set", "frozenset", "deque", "generator"},
     e \in ItemSeqs}

(* Mappings with string keys and integer values, where one key or one     *)
(* value may be of another type: <<n, kp, vp>> gives the length and the    *)
(* positions of the odd key and of the odd value.                          *)
MappingShapes ==
  {sh \in Lens \X (0..MaxLen) \X (0..MaxLen) :
     sh[2] <= sh[1] /\ sh[3] <= sh[1] /\ (sh[2] = 0 \/ sh[3] = 0)}

MappingValues ==
  {MappingOf(ty, Items(sh[1], "str", "int", "one", sh[2]),
             Items(sh[1], "int", odd, "one", sh[3])) :
     ty \in MappingTypes, sh \in MappingShapes, odd \in {"str", "NoneType"}}

ScalarValues ==
  {Scalar("int", 1), Scalar("bool", 1), Scalar("str", 1), NoneObject,
   Scalar("function", 1)}

Objects == SequenceValues \cup MappingValues \cup ScalarValues

(* The declared expressions the values are checked against. *)
SequenceLike ==
  {"list", "tuple", "deque", "AbcSequence", "MutableSequence", "AbcIterable",
   "AbcContainer"}

SetLike == {"set", "frozenset", "AbcSet", "MutableSet"}

MappingLike ==
  {"dict", "AbcMapping", "AbcMutableMapping", "defaultdict", "OrderedDict",
   "ChainMap"}

ElementHints == {Cls("int"), Cls("str"), AnyT, Optional(Cls("int"))}

KeyValueHints ==
  {<<Cls("str"), Cls("int")>>, <<Cls("str"), Optional(Cls("int"))>>,
   <<AnyT, Cls("int")>>, <<Cls("str"), AnyT>>, <<AnyT, AnyT>>}

Hints ==
  Leaves
    \cup {Cls(o) : o \in {"list", "tuple", "set", "frozenset", "dict",
                          "defaultdict", "deque", "AbcIterable",
                          "AbcMapping", "AbcCallable"}}
    \cup {Gen("tuple", <<Cls("int"), Cls("str")>>),
          Gen("tuple", <<Cls("str"), Cls("int")>>)}
    \cup {Gen(o, <<e>>) : o \in SequenceLike \cup SetLike, e \in ElementHints}
    \cup {Gen(o, kv) : o \in MappingLike, kv \in KeyValueHints}
    \cup {Gen("Counter", <<Cls("str")>>), Gen("AbcIterator", <<Cls("int")>>),
          CallableOf(Cls("[int]"), Cls("str")),
          Gen("Union", <<Cls("int"), Cls("str")>>),
          Optional(ListOf(Cls("int"))),
          Gen("Union", <<Gen("AbcIterable", <<Cls("str")>>),
                         Gen("AbcIterable", <<Cls("int")>>)>>)}

(* Values nested n levels deep: [[...[1]...]]. *)
RECURSIVE NestValue(_)

NestValue(n) ==
  IF n = 0 THEN Scalar("int", 1)
  ELSE Container("list", <<NestValue(n - 1)>>)

EdgeObjects ==
  {NestValue(n) : n \in 0..(RecursionLimit + 1)}
    \cup {Scalar("function", 1)}


----------------------------------------------------------------------------
(* The state machine: one call of one function.  sub and sup are the type  *)
(* expressions handed to it and obj is the runtime value; res is the value *)
(* returned and exc the exception that ended the call ("none" when it      *)
(* returned).                                                              *)

Init ==
  /\ sub \in Types
  /\ sup \in Types
  /\ obj = NoneObject
  /\ anyIsClass \in BOOLEAN
  /\ op = "none"
  /\ res = FALSE
  /\ exc = "none"
  /\ pc = "idle"

(* A call that raises assigns no result. *)
Call(name, outcome, value) ==
  /\ pc = "idle"
  /\ op' = name
  /\ exc' = outcome
  /\ res' = IF outcome = "none" THEN value ELSE res
  /\ pc' = "done"
  /\ UNCHANGED <<sub, sup, anyIsClass>>

CallExtendedIssubclass ==
  /\ Call("extended_issubclass",
          Outcome(frames_extended_issubclass(sub, sup),
                  raises_extended_issubclass(sub, sup)),
          extended_issubclass(sub, sup))
  /\ UNCHANGED obj

CallIsEquivalentOrigin ==
  /\ Call("is_equivalent_origin",
          Outcome(1, raises_is_equivalent_origin(sub, sup)),
          is_equivalent_origin(sub, sup))
  /\ UNCHANGED obj

CallIsFullyCompatible ==
  /\ Call("is_fully_compatible",
          Outcome(frames_is_fully_compatible(sub, sup),
                  raises_is_fully_compatible(sub, sup)),
          is_fully_compatible(sub, sup))
  /\ UNCHANGED obj

(* `origin in equiv_set` hashes the origin. *)
CallGetEquivalentOrigin ==
  /\ Call("get_equivalent_origin", Outcome(1, Unhashable(Origin(sub))),
          get_equivalent_origin(sub))
  /\ UNCHANGED obj

CallStripAnnotated ==
  /\ Call("strip_annotated", "none", strip_annotated(sub))
  /\ UNCHANGED obj

(* extended_isinstance(obj, sup): the value is left as the call left it. *)
CallExtendedIsinstance ==
  LET x == extended_isinstance(obj, sup)
  IN  /\ Call("extended_isinstance",
              Outcome(frames_extended_isinstance(obj, sup),
                      raises_extended_isinstance(obj, sup)),
              x.r)
      /\ obj' = x.o

Next ==
  \/ CallExtendedIssubclass
  \/ CallIsEquivalentOrigin
  \/ CallIsFullyCompatible
  \/ CallGetEquivalentOrigin
  \/ CallStripAnnotated

Spec == Init /\ [][Next]_vars

(* Runtime checks of values against declared expressions. *)
InitInstance ==
  /\ sub = NoneType
  /\ sup \in Hints
  /\ obj \in Objects
  /\ anyIsClass \in BOOLEAN
  /\ op = "none"
  /\ res = FALSE
  /\ exc = "none"
  /\ pc = "idle"

NextInstance == CallExtendedIsinstance

SpecInstance == InitInstance /\ [][NextInstance]_vars

(* Calls on malformed and on deeply nested arguments. *)
InitEdge ==
  /\ sub \in EdgeTypes
  /\ sup \in EdgeTypes
  /\ obj \in EdgeObjects
  /\ anyIsClass \in BOOLEAN
  /\ op = "none"
  /\ res = FALSE
  /\ exc = "none"
  /\ pc = "idle"

NextEdge ==
  \/ CallExtendedIssubclass
  \/ CallIsEquivalentOrigin
  \/ CallIsFullyCompatible
  \/ CallExtendedIsinstance

SpecEdge == InitEdge /\ [][NextEdge]_vars

(* A value checked against two declared expressions, and the two          *)
(* expressions compared: small values of every runtime class (a generator *)
(* is left out, it can be read only once).                                *)
SubsumeObjects ==
  {o \in Objects : o.ty # "generator" /\ Len(o.elems) <= 1}

SubsumeHints ==
  Leaves
    \cup {h \in Hints : ~h.g /\ Origin(h) \in ConcreteOrigins}
    \cup {Gen(o, <<Cls("int")>>) : o \in SequenceLike \cup SetLike}
    \cup {Gen(o, <<Cls("str"), Cls("int")>>) : o \in MappingLike}
    \cup {Gen("Counter", <<Cls("str")>>), Optional(ListOf(Cls("int")))}

InitSubsume ==
  /\ sub \in SubsumeHints
  /\ sup \in Hints
  /\ obj \in SubsumeObjects
  /\ anyIsClass \in BOOLEAN
  /\ op = "none"
  /\ res = FALSE
  /\ exc = "none"
  /\ pc = "idle"

NextSubsume ==
  \/ CallExtendedIsinstance
  \/ CallExtendedIssubclass

SpecSubsume == InitSubsume /\ [][NextSubsume]_vars

Returned(name) == pc = "done" /\ op = name

----------------------------------------------------------------------------
(* Properties. *)

ISSUB == "extended_issubclass"

SameArgs == Args(sub) = Args(sup) /\ Args(sub) # <<>>

(* C1: for every type expression e, Union and Optional expressions        *)
(* included, extended_issubclass(e, e) returns True.                       *)
C1_Reflexive == (Returned(ISSUB) /\ sub = sup) => res = TRUE

(* C2: for every Union[A, B] and every supertype sup, a Union or Optional  *)
(* sup included, extended_issubclass(Union[A, B], sup) is True iff         *)
(* extended_issubclass(A, sup) and extended_issubclass(B, sup) are True.   *)
C2_UnionLeftIff ==
  (Returned(ISSUB) /\ _is_union_type(sub) /\ Len(Args(sub)) = 2) =>
    res = (extended_issubclass(Args(sub)[1], sup)
             /\ extended_issubclass(Args(sub)[2], sup))

(* C3: for every expression sub, a Union sub included, and every union     *)
(* supertype, extended_issubclass(sub, Union[A, B]) is True iff            *)
(* extended_issubclass(sub, A) or extended_issubclass(sub, B) is True      *)
(* (stated for every number of members the union lists).                   *)
C3_UnionRightIff ==
  (Returned(ISSUB) /\ _is_union_type(sup)) =>
    res = (\E i \in DOMAIN Args(sup) : extended_issubclass(sub, Args(sup)[i]))

C3_Witness ==
  /\ Returned(ISSUB)
  /\ _is_union_type(sup) /\ Len(Args(sup)) = 2
  /\ _is_union_type(sub)
  /\ sub # sup
  /\ res = TRUE

OwnClass(c) ==
  UNION {EQUIV_ORIGIN[i].s : i \in {j \in DOMAIN EQUIV_ORIGIN : EQUIV_ORIGIN[j].k = c}}

(* C4: for every concrete origin C in list, tuple, set, frozenset, dict    *)
(* and every collections.abc origin A registered in C's own class of       *)
(* _EQUIV_ORIGIN, extended_issubclass(C[args], A[args]) is True for        *)
(* identical type arguments.                                               *)
C4_ConcreteSubOfAbstract ==
  ( /\ Returned(ISSUB)
    /\ Origin(sub) \in {"list", "tuple", "set", "frozenset", "dict"}
    /\ Origin(sup) \in AbstractOrigins \cap OwnClass(Origin(sub))
    /\ SameArgs ) => res = TRUE

(* C5: for every registered abstract origin A and every concrete container *)
(* origin C, extended_issubclass(A[args], C[args]) is False: an abstract   *)
(* type is never a subtype of a concrete type.                             *)
C5_AbstractNotSubOfConcrete ==
  ( /\ Returned(ISSUB)
    /\ Origin(sub) \in AbstractOrigins
    /\ Origin(sup) \in ConcreteOrigins ) => res = FALSE

C5_Witness ==
  /\ Returned(ISSUB)
  /\ Origin(sub) = "AbcSequence" /\ Origin(sup) = "list"
  /\ SameArgs
  /\ res = FALSE

SequenceOfInt == Gen("AbcSequence", <<Cls("int")>>)

IterableOfInt == Gen("AbcIterable", <<Cls("int")>>)

(* C6: extended_issubclass(Sequence[int], Iterable[int]) is True and       *)
(* extended_issubclass(Iterable[int], Sequence[int]) is False.             *)
C6_SequenceSubOfIterable ==
  /\ (Returned(ISSUB) /\ sub = SequenceOfInt /\ sup = IterableOfInt)
       => res = TRUE
  /\ (Returned(ISSUB) /\ sub = IterableOfInt /\ sup = SequenceOfInt)
       => res = FALSE

(* C7: for each specialised origin S and its general counterpart G         *)
(* (OrderedDict, Counter, defaultdict with dict; deque with list),         *)
(* is_equivalent_origin(S[...], G[...]) is True and, for identical type    *)
(* arguments, is_fully_compatible(S[args], G[args]) is True.               *)
C7_SpecializationCollapse ==
  LET SG == {<<"OrderedDict", "dict">>, <<"Counter", "dict">>,
             <<"defaultdict", "dict">>, <<"deque", "list">>}
      case == <<Origin(sub), Origin(sup)>> \in SG /\ sub.g /\ sup.g
  IN  /\ (Returned("is_equivalent_origin") /\ case) => res = TRUE
      /\ (Returned("is_fully_compatible") /\ case /\ SameArgs) => res = TRUE

(* C8: for S in defaultdict, OrderedDict and identical type arguments,     *)
(* extended_issubclass(S[K, V], Dict[K, V]) is True and                    *)
(* extended_issubclass(Dict[K, V], S[K, V]) is False; likewise for         *)
(* Deque[T] and List[T].                                                   *)
C8_SpecializationSubtype ==
  LET SG == {<<"defaultdict", "dict">>, <<"OrderedDict", "dict">>,
             <<"deque", "list">>}
  IN  /\ (Returned(ISSUB) /\ <<Origin(sub), Origin(sup)>> \in SG /\ SameArgs)
           => res = TRUE
      /\ (Returned(ISSUB) /\ <<Origin(sup), Origin(sub)>> \in SG /\ SameArgs)
           => res = FALSE

(* C9: for every single-parameter container origin C and all Derived and   *)
(* Base, Any and Union expressions included: if                            *)
(* extended_issubclass(Derived, Base) then                                 *)
(* extended_issubclass(C[Derived], C[Base]); and if moreover               *)
(* extended_issubclass(Base, Derived) is False then                        *)
(* extended_issubclass(C[Base], C[Derived]) is False.                      *)
C9_Covariance ==
  ( /\ Returned(ISSUB)
    /\ Origin(sub) = Origin(sup) /\ Origin(sub) \in Unary
    /\ Len(Args(sub)) = 1 /\ Len(Args(sup)) = 1 ) =>
    LET x == Args(sub)[1]
        y == Args(sup)[1]
    IN  /\ extended_issubclass(x, y) => res = TRUE
        /\ (extended_issubclass(y, x) /\ ~extended_issubclass(x, y))
             => res = FALSE

(* C10: when the supertype is Optional[U]: if the subtype is Optional[T]   *)
(* then extended_issubclass(Optional[T], Optional[U]) equals               *)
(* extended_issubclass(T, U); otherwise extended_issubclass(sub,           *)
(* Optional[U]) equals extended_issubclass(sub, U); this includes T = U    *)
(* and sub = NoneType.                                                     *)
C10_OptionalOnTheRight ==
  (Returned(ISSUB) /\ _is_optional_type(sup)) =>
    LET U == _get_optional_inner_type(sup)
    IN  IF _is_optional_type(sub)
          THEN res = extended_issubclass(_get_optional_inner_type(sub), U)
          ELSE res = extended_issubclass(sub, U)

(* C11: for every Optional[T] and every supertype that is not a Union      *)
(* (plain nominal classes included), extended_issubclass(Optional[T], sup) *)
(* is False.                                                               *)
C11_OptionalOnTheLeft ==
  (Returned(ISSUB) /\ _is_optional_type(sub) /\ ~_is_union_type(sup)) =>
    res = FALSE

ISINST == "extended_isinstance"

(* A value conforms to a declared type when the type is Any or             *)
(* extended_isinstance accepts it.                                         *)
Conforms(v, t) == t = AnyT \/ extended_isinstance(v, t).r

ShapeCompatible == _check_runtime_origin_compatibility(obj.ty, Origin(sup))

(* C12: for a sequence-like or set-like declared expression with a single  *)
(* element type T and a sized runtime value v whose shape is compatible    *)
(* with the declared origin, extended_isinstance(v, expr) is True iff v is *)
(* empty, or T is Any, or each of the first min(10, len(v)) elements of v  *)
(* in iteration order conforms to T; elements after the tenth never        *)
(* influence the result.                                                   *)
C12_SampledElements ==
  ( /\ Returned(ISINST)
    /\ sup.g /\ Origin(sup) \in SequenceLike \cup SetLike
    /\ Len(Args(sup)) = 1
    /\ HasLen(obj) /\ ShapeCompatible ) =>
    LET T == Args(sup)[1]
        v == Iter(obj)
    IN  res = ( \/ Len(v) = 0
                \/ T = AnyT
                \/ \A i \in 1..Min(10, Len(v)) : Conforms(v[i], T) )

(* A list longer than the sample whose eleventh element has the wrong type *)
(* is accepted.                                                            *)
C12_Witness ==
  /\ Returned(ISINST)
  /\ sup = ListOf(Cls("int"))
  /\ obj.ty = "list" /\ Len(obj.elems) > 10
  /\ obj.elems[11].ty = "str"
  /\ res = TRUE

(* C13: for every mapping-like declared origin M in {dict, Mapping,        *)
(* MutableMapping, defaultdict, OrderedDict, ChainMap} with key type K and *)
(* value type V, not both Any, and every non-empty runtime mapping m whose *)
(* shape is compatible with M, extended_isinstance(m, M[K, V]) is True iff *)
(* each of the first min(10, len(m)) key/value pairs in iteration order    *)
(* has a key conforming to K and a value conforming to V.                  *)
C13_SampledPairs ==
  ( /\ Returned(ISINST)
    /\ sup.g /\ Origin(sup) \in MappingLike
    /\ Len(Args(sup)) = 2
    /\ ~(Args(sup)[1] = AnyT /\ Args(sup)[2] = AnyT)
    /\ obj.ty \in MappingTypes /\ Len(obj.elems) > 0
    /\ ShapeCompatible ) =>
    res = \A i \in 1..Min(10, Len(obj.elems)) :
            /\ Conforms(obj.elems[i], Args(sup)[1])
            /\ Conforms(obj.vals[i], Args(sup)[2])

MappingStrOptionalInt ==
  Gen("AbcMapping", <<Cls("str"), Optional(Cls("int"))>>)

(* {"a": 1, "b": None} and {"a": 1, "b": "x"}. *)
DictWithNone ==
  MappingOf("dict", <<Scalar("str", 1), Scalar("str", 2)>>,
            <<Scalar("int", 1), NoneObject>>)

DictWithStr ==
  MappingOf("dict", <<Scalar("str", 1), Scalar("str", 2)>>,
            <<Scalar("int", 1), Scalar("str", 2)>>)

(* C14: extended_isinstance({"a": 1, "b": None},                           *)
(* Mapping[str, Optional[int]]) is True and                                *)
(* extended_isinstance({"a": 1, "b": "x"}, Mapping[str, Optional[int]])    *)
(* is False.                                                               *)
C14_MappingOfOptional ==
  (Returned(ISINST) /\ sup = MappingStrOptionalInt) =>
    /\ obj = DictWithNone => res = TRUE
    /\ obj = DictWithStr => res = FALSE

C14_Witness ==
  /\ Returned(ISINST)
  /\ sup = MappingStrOptionalInt
  /\ obj = DictWithStr
  /\ res = FALSE

(* C15: extended_issubclass, is_equivalent_origin, is_fully_compatible and *)
(* extended_isinstance never raise an exception on malformed or unexpected *)
(* type expressions (non-type values, unhashable argument values): they    *)
(* return a boolean.                                                       *)
C15_Total ==
  ( /\ pc = "done"
    /\ op \in {ISSUB, "is_equivalent_origin", "is_fully_compatible", ISINST}
    /\ exc # "RecursionError" ) =>
    exc = "none" /\ res \in BOOLEAN

(* C16: when the nesting depth of a type expression, or of the value being *)
(* validated, exceeds the recursion ceiling, extended_issubclass and       *)
(* extended_isinstance end with the dedicated DepthExceeded outcome.       *)
C16_DepthExceeded ==
  /\ (Returned(ISSUB)
        /\ frames_extended_issubclass(sub, sup) > RecursionLimit)
       => exc = "DepthExceeded"
  /\ (Returned(ISINST)
        /\ frames_extended_isinstance(obj, sup) > RecursionLimit)
       => exc = "DepthExceeded"

(* C17: extended_isinstance(value, expr) leaves the value unchanged,       *)
(* including the remaining contents of a one-shot iterable such as a       *)
(* generator, from which no element has been consumed.                     *)
C17_NoSideEffect == [][CallExtendedIsinstance => obj' = obj]_vars

(* C18: for every type expression e, strip_annotated(strip_annotated(e))   *)
(* = strip_annotated(e) and get_annotated_metadata(strip_annotated(e)) is  *)
(* the empty tuple; for e = Annotated[B, m1..mn], strip_annotated(e) is    *)
(* exactly B, the first argument of e, origin and type arguments           *)
(* unaltered.                                                              *)
C18_StripAnnotated ==
  Returned("strip_annotated") =>
    /\ strip_annotated(res) = res
    /\ get_annotated_metadata(res) = <<>>
    /\ is_annotated_type(sub) => res = Args(sub)[1]
    /\ ~is_annotated_type(sub) => res = sub

C18_Witness ==
  /\ Returned("strip_annotated")
  /\ is_annotated_type(sub) /\ Len(Args(sub)) = 3
  /\ res = ListOf(Cls("int"))

(* C19: for every concrete container origin C and every expression e whose *)
(* origin is C, bare or parameterised, get_equivalent_origin(e) returns    *)
(* exactly C, never None and never a different origin.                     *)
C19_OwnCanonicalEntry ==
  (Returned("get_equivalent_origin") /\ Origin(sub) \in ConcreteOrigins) =>
    res = Origin(sub)

ArgCountsDiffer ==
  /\ pc = "done"
  /\ op \in {ISSUB, "is_fully_compatible"}
  /\ Origin(sub) = Origin(sup)
  /\ Len(Args(sub)) # Len(Args(sup))

(* C20 as stated: for any two type expressions with the same origin, two   *)
(* Union expressions included, whose numbers of type arguments differ,     *)
(* both is_fully_compatible and extended_issubclass return False.          *)
C20_Original == ArgCountsDiffer => res = FALSE

(* C20: for any two type expressions with the same origin whose numbers of *)
(* type arguments differ, is_fully_compatible returns False, and           *)
(* extended_issubclass returns False unless the two are Union expressions: *)
(* then it is True iff one member of the supertype is above every member   *)
(* of the subtype, whatever the two lengths.                               *)
C20_ArgCountMismatch ==
  ArgCountsDiffer =>
    /\ (op = "is_fully_compatible" \/ ~_is_union_type(sub)) => res = FALSE
    /\ (op = ISSUB /\ _is_union_type(sub)) =>
         res = \E j \in DOMAIN Args(sup) : \A i \in DOMAIN Args(sub) :
                 extended_issubclass(Args(sub)[i], Args(sup)[j])

(* Two tuples, and two unions, of different lengths. *)
C20_Witness ==
  /\ ArgCountsDiffer
  /\ \/ op = "is_fully_compatible" /\ _is_union_type(sub)
     \/ op = ISSUB /\ Origin(sub) = "tuple" /\ Args(sub) # <<>>
          /\ Args(sup) # <<>>

----------------------------------------------------------------------------
(* Range(s): the members a sequence of arguments lists. *)
Range(s) == {s[i] : i \in DOMAIN s}

(* Claim C21.  Two Union expressions that list the same members in a      *)
(* different order are fully compatible: is_fully_compatible(U1, U2) is   *)
(* True, as is_fully_compatible(U1, U1) is.                               *)
C21_UnionOrderIrrelevant ==
  (Returned("is_fully_compatible")
     /\ _is_union_type(sub) /\ _is_union_type(sup)
     /\ Range(Args(sub)) = Range(Args(sup)) /\ Args(sub) # Args(sup))
    => (exc = "none" /\ res = TRUE /\ is_fully_compatible(sub, sub))

(* Claim C22.  When both arguments of is_equivalent_origin are Union      *)
(* expressions the result is True exactly when some member of the first   *)
(* is equivalent to some member of the second.                            *)
C22_UnionCrossPair ==
  (Returned("is_equivalent_origin")
     /\ _is_union_type(sub) /\ _is_union_type(sup))
    => (exc = "none"
        /\ res = (\E i \in DOMAIN Args(sub) : \E j \in DOMAIN Args(sup) :
                    is_equivalent_origin(Args(sub)[i], Args(sup)[j])))

(* Two origins are co-members of an equivalence class of _EQUIV_ORIGIN. *)
CoMembers(o1, o2) ==
  \E i \in DOMAIN EQUIV_ORIGIN :
    o1 \in EQUIV_ORIGIN[i].s /\ o2 \in EQUIV_ORIGIN[i].s

(* Claim C23.  For two distinct concrete container origins that are       *)
(* co-members of an equivalence class and have no abstraction edge        *)
(* sub -> sup in concrete_to_abstract, _is_subtype_origin(sub, sup) is    *)
(* False, and so is extended_issubclass(sub[args], sup[args]).            *)
C23_ConcreteCoMembers ==
  ( /\ Returned(ISSUB)
    /\ Origin(sub) \in ConcreteOrigins /\ Origin(sup) \in ConcreteOrigins
    /\ Origin(sub) # Origin(sup)
    /\ CoMembers(Origin(sub), Origin(sup))
    /\ Origin(sup) \notin concrete_to_abstract[Origin(sub)]
    /\ SameArgs )
    => ( /\ ~_is_subtype_origin(Origin(sub), Origin(sup))
         /\ exc = "none" /\ res = FALSE )

RECURSIVE SelfEqual(_)

SelfEqual(t) ==
  /\ PyEq(Origin(t), Origin(t))
  /\ \A i \in DOMAIN Args(t) : SelfEqual(Args(t)[i])

C25_Symmetric ==
  /\ ( ( /\ Returned("is_equivalent_origin")
         /\ frames_is_fully_compatible(sub, sup) <= RecursionLimit )
       => ( /\ (exc = "TypeError") = raises_is_equivalent_origin(sup, sub)
            /\ exc = "none" => res = is_equivalent_origin(sup, sub) ) )
  /\ ( ( /\ Returned("is_fully_compatible")
         /\ frames_is_fully_compatible(sub, sup) <= RecursionLimit )
       => ( /\ (exc = "TypeError") = raises_is_fully_compatible(sup, sub)
            /\ exc = "none" => res = is_fully_compatible(sup, sub) ) )

(* Claim C30.  Any is the top type at every position: for every type      *)
(* expression e, extended_issubclass(e, Any) is True at top level, as     *)
(* extended_issubclass(List[e], List[Any]) is in argument position.       *)
C30_AnyIsTop ==
  (Returned(ISSUB) /\ sup = AnyT)
    => ( /\ exc = "none" /\ res = TRUE
         /\ extended_issubclass(ListOf(sub), ListOf(AnyT)) )

(* The registered container origins: the concrete classes and the         *)
(* collections.abc abstractions.                                          *)
RegisteredOrigins == ConcreteOrigins \cup AbstractOrigins

(* Claim C29.  The copy of _is_subtype_origin kept in the test suite and  *)
(* the library's version return the same boolean for every ordered pair   *)
(* of registered container origins.                                       *)
C29_TestCopyAgrees ==
  ( /\ Returned(ISSUB)
    /\ sub \in Bare /\ sup \in Bare
    /\ Origin(sub) \in RegisteredOrigins /\ Origin(sup) \in RegisteredOrigins )
    => ( /\ exc = "none"
         /\ res = _is_subtype_origin(Origin(sub), Origin(sup))
         /\ res = test__is_subtype_origin(Origin(sub), Origin(sup)) )

(* The concrete container classes. *)
ConcreteClasses ==
  {"list", "tuple", "set", "frozenset", "dict", "defaultdict", "deque"}

(* Claim C27.  Shape soundness against concrete classes: when             *)
(* extended_isinstance(v, C) or extended_isinstance(v, C[args]) is True   *)
(* for a concrete container class C, type(v) is C or a nominal subclass   *)
(* of C.                                                                   *)
C27_ShapeSound ==
  ( /\ Returned(ISINST)
    /\ Origin(sup) \in ConcreteClasses
    /\ exc = "none" /\ res = TRUE )
    => (obj.ty = Origin(sup) \/ issubclass(obj.ty, Origin(sup)))

(* Claim C28.  Fixed-length tuple expressions are validated               *)
(* positionally: for a tuple (v1, ..., vn), n <= 10, and Tuple[T1, ...,   *)
(* Tn], extended_isinstance returns True whenever each vi conforms to Ti. *)
C28_TuplePositional ==
  ( /\ Returned(ISINST)
    /\ obj.ty = "tuple" /\ Origin(sup) = "tuple"
    /\ Len(Args(sup)) = Len(obj.elems) /\ Len(obj.elems) <= SampleSize
    /\ \A i \in DOMAIN obj.elems : Conforms(obj.elems[i], Args(sup)[i]) )
    => (exc = "none" /\ res = TRUE)

(* Claim C26.  Subsumption: when extended_isinstance(v, sub) and          *)
(* extended_issubclass(sub, sup) are True, extended_isinstance(v, sup) is *)
(* True (ChainMap, OrderedDict, Counter, defaultdict and deque as sub     *)
(* included).                                                             *)
C26_Subsumption ==
  ( /\ Returned(ISINST)
    /\ ~raises_extended_isinstance(obj, sub)
    /\ extended_isinstance(obj, sub).r
    /\ ~raises_extended_issubclass(sub, sup)
    /\ extended_issubclass(sub, sup) )
    => (exc = "none" /\ res = TRUE)

====
